---- MODULE Spec2Model ----
(***************************************************************************)
(* Model of lsm_project/lsm/functions.py: the least-squares pipeline       *)
(* get_lsm_description / get_lsm_lines with its helpers.                   *)
(*                                                                         *)
(* Numbers.  Python computes in binary floating point.  The model computes *)
(* in exact arithmetic: rationals <<n, d>> up to the square roots, and     *)
(* finite sums  c1*sqrt(r1) + c2*sqrt(r2) + ...  (r square-free) after     *)
(* them.  IEEE-754 rounding is therefore NOT modelled: an equality the     *)
(* model shows is an equality of the real-number values of the formulas.   *)
(***************************************************************************)
EXTENDS Integers, Sequences, FiniteSets, TLC

VARIABLES abscissa, ordinates, pc, fit, auto, lines, pm

vars == <<abscissa, ordinates, pc, fit, auto, lines, pm>>

(***************************************************************************)
(* Bounds of the model and constants of the program                        *)
(***************************************************************************)
MaxLen == 4

MinSamples == 3

(***************************************************************************)
(* Exact rational arithmetic: <<n, d>>, d > 0, gcd(n, d) = 1               *)
(***************************************************************************)
Abs(x) == IF x < 0 THEN -x ELSE x

RECURSIVE Gcd(_, _)
Gcd(a, b) == IF b = 0 THEN a ELSE Gcd(b, a % b)

Rat(n, d) ==
    LET g == Gcd(Abs(n), Abs(d))
        s == IF d < 0 THEN -1 ELSE 1
    IN  <<(s * n) \div g, (s * d) \div g>>

RInt(n) == <<n, 1>>
RZero == <<0, 1>>
RAdd(p, q) == Rat(p[1] * q[2] + q[1] * p[2], p[2] * q[2])
RSub(p, q) == Rat(p[1] * q[2] - q[1] * p[2], p[2] * q[2])
RMul(p, q) == Rat(p[1] * q[1], p[2] * q[2])
RDiv(p, q) == Rat(p[1] * q[2], p[2] * q[1])
RIsZero(p) == p[1] = 0
RIsNeg(p) == p[1] < 0

RECURSIVE RSum(_)
RSum(s) == IF s = <<>> THEN RZero ELSE RAdd(Head(s), RSum(Tail(s)))

(***************************************************************************)
(* Real values after a square root: a finite set of terms c*sqrt(r), with  *)
(* c a nonzero rational and r a square-free positive integer (r = 1 for    *)
(* the rational part).  The representation is canonical, so two values are *)
(* equal as real numbers iff they are equal as sets.                       *)
(***************************************************************************)
Term(c, r) == [c |-> c, r |-> r]
Zero == {}
FromRat(q) == IF RIsZero(q) THEN Zero ELSE {Term(q, 1)}
Coef(u, r) == IF \E t \in u : t.r = r THEN (CHOOSE t \in u : t.r = r).c ELSE RZero
Add(u, v) ==
    LET rs == {t.r : t \in u} \cup {t.r : t \in v}
    IN  {t \in {Term(RAdd(Coef(u, r), Coef(v, r)), r) : r \in rs} : ~RIsZero(t.c)}
Scale(u, q) == IF RIsZero(q) THEN Zero ELSE {Term(RMul(t.c, q), t.r) : t \in u}
Sub(u, v) == Add(u, Scale(v, RInt(-1)))

RECURSIVE SquarePart(_, _)
SquarePart(m, k) ==
    IF k * k > m THEN 1
    ELSE IF m % (k * k) = 0 THEN k * SquarePart(m \div (k * k), k)
    ELSE SquarePart(m, k + 1)

\* math.sqrt of a non-negative rational p/r:
\*   sqrt(p/r) = kp*sqrt(mp) / (kr*sqrt(mr)) = (kp / (kr*mr)) * sqrt(mp*mr)
Sqrt(q) ==
    IF RIsZero(q) THEN Zero
    ELSE LET kp == SquarePart(q[1], 2)
             kr == SquarePart(q[2], 2)
             mp == q[1] \div (kp * kp)
             mr == q[2] \div (kr * kr)
         IN  {Term(Rat(kp, kr * mr), mp * mr)}

(***************************************************************************)
(* Values handed to the functions                                          *)
(***************************************************************************)
\* an element of an input: a real number (int/float) or a str
R(v) == [real |-> TRUE, v |-> v]
NonReal == [real |-> FALSE, v |-> 0]

\* an argument: something list() accepts, or an object that is not iterable
IterArg(items) == [iterable |-> TRUE, items |-> items]
NotIterable == [iterable |-> FALSE, items |-> <<>>]

\* MismatchStrategies members, a value outside the enumeration, and the
\* argument left out
FALL == "FALL"
CUT == "CUT"
Unknown == "UNKNOWN"
Omitted == "omitted"
StrategyArgs == {Omitted, FALL, CUT, Unknown}

\* exceptions as raised by the code
Exc(type, msg) == [type |-> type, msg |-> msg]
NoExc == Exc("", "")
InputTypeError == Exc("TypeError", "An arguments must be a lists")
InputValueError == Exc("ValueError", "Some values are not real")
LengthError == Exc("ValueError", "Arguments lenghts must be more than 2")
MismatchError == Exc("RuntimeError", "Lenghts of the arguments are not equal")
PolicyError == Exc("ValueError", "Unknown data in argument \"mismatch_data\"")
TypeMismatchError == Exc("TypeError", "Incorrect data in lms_description")
ZeroDivisionError == Exc("ZeroDivisionError", "float division by zero")
MathDomainError == Exc("ValueError", "math domain error")
NotIterableError == Exc("TypeError", "object is not iterable")
OperandError == Exc("TypeError", "can't multiply sequence by non-int of type 'float'")

\* LSMDescription, None, and an object of another class
LSMDescription(incline, shift, incline_error, shift_error) ==
    [cls |-> "LSMDescription", incline |-> incline, shift |-> shift,
     incline_error |-> incline_error, shift_error |-> shift_error]
None == [cls |-> "NoneType", incline |-> Zero, shift |-> Zero,
         incline_error |-> Zero, shift_error |-> Zero]
NotADescription == [cls |-> "dict", incline |-> Zero, shift |-> Zero,
                    incline_error |-> Zero, shift_error |-> Zero]

LSMLines(abs_arg, ord_arg, line_predicted, line_above, line_under) ==
    [abscissa |-> abs_arg, ordinates |-> ord_arg, line_predicted |-> line_predicted,
     line_above |-> line_above, line_under |-> line_under]
NoLines == LSMLines(NotIterable, NotIterable, <<>>, <<>>, <<>>)

(***************************************************************************)
(* Outcome of a call: what it returned or raised, and the severities of    *)
(* the events it sent to event_logger, in order.  resolved holds the pair  *)
(* of lists _process_mismatch handed back (<<>> when it was not reached or *)
(* raised).                                                                *)
(***************************************************************************)
Returned(value, log, resolved) ==
    [kind |-> "return", exc |-> NoExc, value |-> value, log |-> log, resolved |-> resolved]
Raised(exc, log, resolved) ==
    [kind |-> "raise", exc |-> exc, value |-> None, log |-> log, resolved |-> resolved]

\* faulty variant: the parameter defaults to CUT
DefaultStrategy_Cut(s) == IF s = Omitted THEN CUT ELSE s

\* the default of the parameter mismatch_strategy
DefaultStrategy(s) == IF s = Omitted THEN FALL ELSE s

is_valid_measurments(measurments) ==
    \A i \in 1..Len(measurments) : measurments[i].real

Min(a, b) == IF a < b THEN a ELSE b

\* faulty variant: only two short lists are refused
TooShort_Both(xs, ys) == Len(xs) < MinSamples /\ Len(ys) < MinSamples

TooShort(xs, ys) == Len(xs) < MinSamples \/ Len(ys) < MinSamples

\* faulty variant: the cut keeps the trailing elements
Slice_Tail(s, n) == SubSeq(s, Len(s) - n + 1, Len(s))

\* s[:n]
Slice(s, n) == SubSeq(s, 1, n)

\* faulty variant: the strategy is matched whether or not the lengths differ
LengthsDiffer_Always(xs, ys) == TRUE

LengthsDiffer(xs, ys) == Len(xs) # Len(ys)

IsFall(s) == s = FALL

\* faulty variant: every value but FALL cuts
IsCut_NotFall(s) == s # FALL

IsCut(s) == s = CUT

process_mismatch(xs, ys, mismatch_strategy) ==
    IF TooShort(xs, ys)
    THEN [raised |-> TRUE, exc |-> LengthError, abscissa |-> xs, ordinates |-> ys,
          log |-> <<"error">>]
    ELSE IF LengthsDiffer(xs, ys)
    THEN IF IsFall(mismatch_strategy)
         THEN [raised |-> TRUE, exc |-> MismatchError, abscissa |-> xs, ordinates |-> ys,
               log |-> <<"error">>]
         ELSE IF IsCut(mismatch_strategy)
         THEN LET min_lenght == Min(Len(xs), Len(ys))
              IN  [raised |-> FALSE, exc |-> NoExc, abscissa |-> Slice(xs, min_lenght),
                   ordinates |-> Slice(ys, min_lenght), log |-> <<"warning">>]
         ELSE [raised |-> TRUE, exc |-> PolicyError, abscissa |-> xs, ordinates |-> ys,
               log |-> <<"error">>]
    ELSE [raised |-> FALSE, exc |-> NoExc, abscissa |-> xs, ordinates |-> ys, log |-> <<>>]

\* the numbers of a validated list
Num(s) == [i \in 1..Len(s) |-> RInt(s[i].v)]

get_lsm_statistics(x, y) ==
    LET data_lenght == RInt(Len(x))
    IN  [abscissa_mean |-> RDiv(RSum(x), data_lenght),
         ordinate_mean |-> RDiv(RSum(y), data_lenght),
         product_mean |-> RDiv(RSum([i \in 1..Len(x) |-> RMul(x[i], y[i])]), data_lenght),
         abs_squared_mean |-> RDiv(RSum([i \in 1..Len(x) |-> RMul(x[i], x[i])]), data_lenght)]

\* stats.abs_squared_mean - stats.abscissa_mean**2
Denominator(stats) ==
    RSub(stats.abs_squared_mean, RMul(stats.abscissa_mean, stats.abscissa_mean))

\* numerator of incline; the division by Denominator is guarded by the caller
InclineNumerator(stats) ==
    RSub(stats.product_mean, RMul(stats.abscissa_mean, stats.ordinate_mean))

\* faulty variant: the abscissa mean is left out of the shift
Shift_NoMean(stats, incline) == RSub(stats.ordinate_mean, incline)

Shift(stats, incline) == RSub(stats.ordinate_mean, RMul(incline, stats.abscissa_mean))

Residual(x, y, incline, shift, i) == RSub(RSub(y[i], RMul(incline, x[i])), shift)

OrdinatesError(x, y, incline, shift) ==
    RMul(RDiv(RInt(1), RInt(Len(x) - 2)),
         RSum([i \in 1..Len(x) |->
                 RMul(Residual(x, y, incline, shift, i), Residual(x, y, incline, shift, i))]))

InclineErrorSquared(stats, ordinates_error, n) ==
    RDiv(RDiv(ordinates_error, RInt(n)), Denominator(stats))

ShiftErrorSquared(stats, ordinates_error, n) ==
    RDiv(RDiv(RMul(ordinates_error, stats.abs_squared_mean), RInt(n)), Denominator(stats))

\* lines 61-89: the computation over the resolved lists
Estimate(xs, ys, log) ==
    LET x == Num(xs)
        y == Num(ys)
        data_lenght == Len(xs)
        stats == get_lsm_statistics(x, y)
    IN  IF RIsZero(Denominator(stats))
        THEN Raised(ZeroDivisionError, log, <<xs, ys>>)
        ELSE LET incline == RDiv(InclineNumerator(stats), Denominator(stats))
                 shift == Shift(stats, incline)
                 ordinates_error == OrdinatesError(x, y, incline, shift)
                 ie2 == InclineErrorSquared(stats, ordinates_error, data_lenght)
                 se2 == ShiftErrorSquared(stats, ordinates_error, data_lenght)
             IN  IF RIsNeg(ie2) \/ RIsNeg(se2)
                 THEN Raised(MathDomainError, log, <<xs, ys>>)
                 ELSE Returned(LSMDescription(FromRat(incline), FromRat(shift),
                                              Sqrt(ie2), Sqrt(se2)),
                               log \o <<"info">>, <<xs, ys>>)

get_lsm_description(abs_arg, ord_arg, strategy_arg) ==
    LET mismatch_strategy == DefaultStrategy(strategy_arg)
    IN  IF ~abs_arg.iterable \/ ~ord_arg.iterable
        THEN Raised(InputTypeError, <<"info", "error">>, <<>>)
        ELSE IF ~is_valid_measurments(abs_arg.items) \/ ~is_valid_measurments(ord_arg.items)
        THEN Raised(InputValueError, <<"info", "error">>, <<>>)
        ELSE LET res == process_mismatch(abs_arg.items, ord_arg.items, mismatch_strategy)
             IN  IF res.raised
                 THEN Raised(res.exc, <<"info">> \o res.log, <<>>)
                 ELSE Estimate(res.abscissa, res.ordinates,
                               <<"info">> \o res.log \o <<"info", "info">>)

\* faulty variant: the internal call cuts instead of using the default
InternalDescription_Cut(abs_arg, ord_arg) == get_lsm_description(abs_arg, ord_arg, CUT)

\* line 106: the description get_lsm_lines computes when it is given none
InternalDescription(abs_arg, ord_arg) == get_lsm_description(abs_arg, ord_arg, Omitted)

LinePredicted(d, xv) == Add(Scale(d.incline, RInt(xv)), d.shift)
LineAbove(d, xv) ==
    Add(Add(Scale(Add(d.incline, d.incline_error), RInt(xv)), d.shift), d.shift_error)
LineUnder(d, xv) ==
    Sub(Add(Scale(Sub(d.incline, d.incline_error), RInt(xv)), d.shift), d.shift_error)

\* lines 108-127, given the description in use and the events logged so far
BuildLines(abs_arg, ord_arg, d, log) ==
    IF d.cls # "LSMDescription"
    THEN [kind |-> "raise", exc |-> TypeMismatchError, value |-> NoLines,
          log |-> log \o <<"error">>]
    ELSE IF ~abs_arg.iterable
    THEN [kind |-> "raise", exc |-> NotIterableError, value |-> NoLines, log |-> log]
    ELSE IF ~is_valid_measurments(abs_arg.items)
    THEN [kind |-> "raise", exc |-> OperandError, value |-> NoLines, log |-> log]
    ELSE LET xs == abs_arg.items
         IN  [kind |-> "return", exc |-> NoExc,
              value |-> LSMLines(abs_arg, ord_arg,
                                 [i \in 1..Len(xs) |-> LinePredicted(d, xs[i].v)],
                                 [i \in 1..Len(xs) |-> LineAbove(d, xs[i].v)],
                                 [i \in 1..Len(xs) |-> LineUnder(d, xs[i].v)]),
              log |-> log]

get_lsm_lines(abs_arg, ord_arg, lsm_description) ==
    IF lsm_description.cls = "NoneType"
    THEN LET r == InternalDescription(abs_arg, ord_arg)
         IN  IF r.kind = "raise"
             THEN [kind |-> "raise", exc |-> r.exc, value |-> NoLines, log |-> r.log]
             ELSE BuildLines(abs_arg, ord_arg, r.value, r.log)
    ELSE BuildLines(abs_arg, ord_arg, lsm_description, <<>>)

(***************************************************************************)
(* The caller.  The two arguments are fixed at the start; the caller then  *)
(* may ask for the lines without a description, ask for a description      *)
(* under some strategy, and ask for the lines with a description it        *)
(* supplies (the one just returned, or one of its own).                    *)
(***************************************************************************)

Values == {0, 1}

Lists(V, lo, hi) == UNION {[1..n -> {R(v) : v \in V}] : n \in lo..hi}

\* a list whose last element is a str
Spoil(s) == [s EXCEPT ![Len(s)] = NonReal]

Args ==
    {NotIterable}
      \cup {IterArg(s) : s \in Lists(Values, 0, MaxLen)}
      \cup {IterArg(Spoil(s)) : s \in Lists(Values, 1, MaxLen)}

\* a description the caller made itself: incline 1, shift 0, errors 1/2 and 0
OwnDescription == LSMDescription(FromRat(RInt(1)), Zero, FromRat(Rat(1, 2)), Zero)

SuppliedDescriptions == {NotADescription, OwnDescription}

\* no call made yet
NoFit == [kind |-> "none", exc |-> NoExc, value |-> None, log |-> <<>>, resolved |-> <<>>]
NoLinesOut == [kind |-> "none", exc |-> NoExc, value |-> NoLines, log |-> <<>>]
NoMismatch == [raised |-> FALSE, exc |-> NoExc, abscissa |-> <<>>, ordinates |-> <<>>,
               log |-> <<>>]

Fresh ==
    /\ pc = "start"
    /\ fit = [called |-> FALSE, strategy |-> Omitted, out |-> NoFit]
    /\ auto = [called |-> FALSE, out |-> NoLinesOut]
    /\ lines = [called |-> FALSE, description |-> None, out |-> NoLinesOut]
    /\ pm = [called |-> FALSE, strategy |-> Omitted, out |-> NoMismatch]

Init ==
    /\ abscissa \in Args
    /\ ordinates \in Args
    /\ Fresh

\* inputs for the numeric claims: lists of MinSamples..MaxLen integers, the
\* ordinates on the line a*x + b, the first one moved off it by noise
FitValues == {-1, 0, 2}
Slopes == {-2, 0, 1}
Shifts == {-1, 0, 3}
Noises == {0, 1}

OnLine(xs, a, b, noise) ==
    [i \in 1..Len(xs) |-> R(a * xs[i].v + b + (IF i = 1 THEN noise ELSE 0))]

InitFit ==
    /\ \E xs \in Lists(FitValues, MinSamples, MaxLen), a \in Slopes, b \in Shifts,
          noise \in Noises :
            /\ abscissa = IterArg(xs)
            /\ ordinates = IterArg(OnLine(xs, a, b, noise))
    /\ Fresh

EstimateFit(s) ==
    /\ pc \in {"start", "auto"}
    /\ fit' = [called |-> TRUE, strategy |-> s,
               out |-> get_lsm_description(abscissa, ordinates, s)]
    /\ pc' = "fit"
    /\ UNCHANGED <<abscissa, ordinates, auto, lines, pm>>

ComputeLinesAuto ==
    /\ pc = "start"
    /\ auto' = [called |-> TRUE, out |-> get_lsm_lines(abscissa, ordinates, None)]
    /\ pc' = "auto"
    /\ UNCHANGED <<abscissa, ordinates, fit, lines, pm>>

ComputeLinesFitted ==
    /\ pc = "fit"
    /\ fit.out.kind = "return"
    /\ lines' = [called |-> TRUE, description |-> fit.out.value,
                 out |-> get_lsm_lines(abscissa, ordinates, fit.out.value)]
    /\ pc' = "done"
    /\ UNCHANGED <<abscissa, ordinates, fit, auto, pm>>

ComputeLinesSupplied(d) ==
    /\ pc = "start"
    /\ lines' = [called |-> TRUE, description |-> d,
                 out |-> get_lsm_lines(abscissa, ordinates, d)]
    /\ pc' = "done"
    /\ UNCHANGED <<abscissa, ordinates, fit, auto, pm>>

\* _process_mismatch on its own, handed two lists
ProcessMismatch(s) ==
    /\ pc = "start"
    /\ abscissa.iterable /\ ordinates.iterable
    /\ pm' = [called |-> TRUE, strategy |-> s,
              out |-> process_mismatch(abscissa.items, ordinates.items, DefaultStrategy(s))]
    /\ pc' = "done"
    /\ UNCHANGED <<abscissa, ordinates, fit, auto, lines>>

Next ==
    \/ \E s \in StrategyArgs : EstimateFit(s)
    \/ \E s \in StrategyArgs : ProcessMismatch(s)
    \/ ComputeLinesAuto
    \/ ComputeLinesFitted
    \/ \E d \in SuppliedDescriptions : ComputeLinesSupplied(d)

Spec == Init /\ [][Next]_vars

SpecFit == InitFit /\ [][Next]_vars

(***************************************************************************)
(* Vocabulary of the properties                                            *)
(***************************************************************************)
BothLists == abscissa.iterable /\ ordinates.iterable
AllReal ==
    /\ BothLists
    /\ \A i \in 1..Len(abscissa.items) : abscissa.items[i].real
    /\ \A i \in 1..Len(ordinates.items) : ordinates.items[i].real
LenA == Len(abscissa.items)
LenO == Len(ordinates.items)
Shorter == IF LenA < LenO THEN LenA ELSE LenO
BothLongEnough == LenA >= 3 /\ LenO >= 3
SomeShort == LenA < 3 \/ LenO < 3
Collinear(a, b) == \A i \in 1..LenA : ordinates.items[i].v = a * abscissa.items[i].v + b
TwoAbscissas == \E i, j \in 1..LenA : abscissa.items[i].v # abscissa.items[j].v
Logged(log, severity) == \E i \in 1..Len(log) : log[i] = severity
LoggedLast(log, severity) == log # <<>> /\ log[Len(log)] = severity

C2_CutKeepsPrefixes ==
    (pm.called /\ pm.strategy = CUT /\ BothLongEnough /\ LenA # LenO)
      => /\ ~pm.out.raised
         /\ Len(pm.out.abscissa) = Shorter
         /\ Len(pm.out.ordinates) = Shorter
         /\ \A i \in 1..Shorter : /\ pm.out.abscissa[i] = abscissa.items[i]
                                  /\ pm.out.ordinates[i] = ordinates.items[i]

C2_Witness ==
    /\ pm.called /\ pm.strategy = CUT /\ LenA = 4 /\ LenO = 3
    /\ ~AllReal
    /\ Len(pm.out.abscissa) = 3 /\ Len(pm.out.ordinates) = 3

\* C3: when both inputs are lists of real numbers and one of them has fewer
\* than 3 elements, get_lsm_description raises the length error under every
\* strategy value, equal lengths or not, and returns no description.
C3_LengthError ==
    (fit.called /\ AllReal /\ SomeShort)
      => /\ fit.out.kind = "raise"
         /\ fit.out.exc = LengthError
         /\ fit.out.value = None

C3_Witness ==
    /\ fit.called /\ fit.strategy = Unknown /\ AllReal /\ LenA = 2 /\ LenO = 4
    /\ fit.out.kind = "raise" /\ fit.out.exc = LengthError

\* C4: when both inputs are lists of at least 3 real numbers of different
\* lengths, get_lsm_description under FALL, given or by default, raises the
\* mismatch error and returns no description.
C4_MismatchError ==
    (fit.called /\ fit.strategy \in {FALL, Omitted} /\ AllReal /\ BothLongEnough /\ LenA # LenO)
      => /\ fit.out.kind = "raise"
         /\ fit.out.exc = MismatchError
         /\ fit.out.value = None

C4_Witness ==
    /\ fit.called /\ fit.strategy = Omitted /\ AllReal /\ LenA = 3 /\ LenO = 4
    /\ fit.out.kind = "raise" /\ fit.out.exc = MismatchError

\* C5: on equal-length lists of n >= 3 real numbers whose abscissas are all
\* the same, get_lsm_description raises the explicit degenerate-fit error: it
\* returns no description and lets no raw arithmetic fault escape.
C5_DegenerateFitError ==
    (fit.called /\ AllReal /\ LenA = LenO /\ LenA >= 3 /\ ~TwoAbscissas)
      => /\ fit.out.kind = "raise"
         /\ fit.out.exc.type = "DegenerateFitError"
         /\ fit.out.exc # ZeroDivisionError
         /\ fit.out.exc # MathDomainError

\* the failures of the error taxonomy as the code raises them; the degenerate
\* fit leaves the code as the arithmetic fault of its division or square root
TaxonomyFailures ==
    {InputTypeError, InputValueError, LengthError, MismatchError, PolicyError,
     TypeMismatchError, ZeroDivisionError, MathDomainError}

\* C6: every call of get_lsm_description or get_lsm_lines that ends in a
\* failure of the taxonomy has sent an event of severity "error" to the
\* logger, as its last event before raising.
C6_ErrorLoggedBeforeRaise ==
    /\ (fit.called /\ fit.out.kind = "raise" /\ fit.out.exc \in TaxonomyFailures)
         => LoggedLast(fit.out.log, "error")
    /\ (auto.called /\ auto.out.kind = "raise" /\ auto.out.exc \in TaxonomyFailures)
         => LoggedLast(auto.out.log, "error")
    /\ (lines.called /\ lines.out.kind = "raise" /\ lines.out.exc \in TaxonomyFailures)
         => LoggedLast(lines.out.log, "error")

\* C7: get_lsm_lines without a description ends as get_lsm_description
\* followed by get_lsm_lines with the description it returned: the same five
\* fields when the description is returned, the same exception and no lines
\* when it is not.
C7_LinesWithoutDescription ==
    (auto.called /\ fit.called /\ fit.strategy = Omitted)
      => /\ fit.out.kind = "raise"
           => /\ auto.out.kind = "raise"
              /\ auto.out.exc = fit.out.exc
              /\ auto.out.value = NoLines
         /\ fit.out.kind = "return" => auto.out.kind = "return"
         /\ lines.called
           => /\ lines.out.kind = auto.out.kind
              /\ lines.out.exc = auto.out.exc
              /\ lines.out.value = auto.out.value

C7_Witness ==
    /\ auto.called /\ fit.called /\ fit.strategy = Omitted /\ lines.called
    /\ lines.out.kind = "return"
    /\ lines.out.value = auto.out.value
    /\ lines.out.value.line_above # lines.out.value.line_predicted
    /\ lines.out.value.line_above # lines.out.value.line_under

\* C8: every LSMLines that get_lsm_lines returns for two lists of at least 3
\* real numbers, with or without a supplied description, has its five
\* sequences of one length, the three lines computed from the abscissa at
\* the same position.
C8_FiveSequencesOneLength ==
    /\ (lines.called /\ AllReal /\ BothLongEnough /\ lines.out.kind = "return")
         => LET v == lines.out.value
                n == Len(v.abscissa.items)
            IN  /\ v.abscissa.iterable /\ v.ordinates.iterable
                /\ Len(v.ordinates.items) = n
                /\ Len(v.line_predicted) = n
                /\ Len(v.line_above) = n
                /\ Len(v.line_under) = n
                /\ \A i \in 1..n :
                     /\ v.line_predicted[i] = LinePredicted(lines.description, v.abscissa.items[i].v)
                     /\ v.line_above[i] = LineAbove(lines.description, v.abscissa.items[i].v)
                     /\ v.line_under[i] = LineUnder(lines.description, v.abscissa.items[i].v)
    /\ (auto.called /\ auto.out.kind = "return")
         => LET v == auto.out.value
                n == Len(v.abscissa.items)
            IN  /\ Len(v.ordinates.items) = n
                /\ Len(v.line_predicted) = n
                /\ Len(v.line_above) = n
                /\ Len(v.line_under) = n

\* C9: when both inputs are lists of at least 3 real numbers of different
\* lengths, get_lsm_description under a strategy value that is neither FALL
\* nor CUT raises the policy error, logs an error, truncates nothing and
\* returns no description.
C9_PolicyError ==
    (fit.called /\ fit.strategy = Unknown /\ AllReal /\ BothLongEnough /\ LenA # LenO)
      => /\ fit.out.kind = "raise"
         /\ fit.out.exc = PolicyError
         /\ LoggedLast(fit.out.log, "error")
         /\ ~Logged(fit.out.log, "warning")
         /\ fit.out.resolved = <<>>
         /\ fit.out.value = None

C9_Witness ==
    /\ fit.called /\ fit.strategy = Unknown /\ AllReal /\ LenA = 4 /\ LenO = 3
    /\ fit.out.kind = "raise" /\ fit.out.exc = PolicyError

\* C10: get_lsm_description checks, in this order, that the inputs are lists,
\* that their elements are real, that each has 3 elements, and the length
\* mismatch, and reports the first failure only; with two lists of real
\* numbers of one length >= 3 the strategy is not looked at, so the outcome is
\* the one under FALL whatever the strategy value.
C10_CheckOrder ==
    fit.called
      => /\ ~BothLists => fit.out.exc = InputTypeError
         /\ (BothLists /\ ~AllReal) => fit.out.exc = InputValueError
         /\ (AllReal /\ SomeShort) => fit.out.exc = LengthError
         /\ (AllReal /\ BothLongEnough /\ LenA # LenO)
              => fit.out.exc \in {MismatchError, PolicyError, NoExc, ZeroDivisionError}
         /\ (AllReal /\ BothLongEnough /\ LenA = LenO)
              => /\ fit.out = get_lsm_description(abscissa, ordinates, FALL)
                 /\ fit.out.resolved = <<abscissa.items, ordinates.items>>
                 /\ fit.out.exc \notin {MismatchError, PolicyError, LengthError}

C10_Witness ==
    /\ fit.called /\ fit.strategy = Unknown
    /\ AllReal /\ LenA = LenO /\ LenA >= 3
    /\ fit.out.kind = "return"
    /\ fit.out.value.incline_error # Zero

====
